---- MODULE Spec2Model ----
(***************************************************************************)
(* State-machine models of the contracts of src/save_string: the          *)
(* stablecoin ledger (stablecoin.cpp, stablecoin.hpp), the ATM withdrawal  *)
(* limiter (gfatm.cpp, gfatm.hpp), the poll contract (pollgf.cpp,          *)
(* pollgf.hpp) and the messenger (msg.cpp).                                *)
(*                                                                         *)
(* The multi_index tables of a contract are its state.  Every contract     *)
(* action is a pure operator from a database and the call's arguments to   *)
(* the database the handler leaves behind and the failure it raised (or    *)
(* "ok"); the host commits the database of a transaction that raised       *)
(* nothing and discards it otherwise.  The contracts are deployed          *)
(* separately and share no table: each has its own specification, in       *)
(* which the tables of the others stay as deployed.                        *)
(***************************************************************************)
EXTENDS Integers, FiniteSets, Sequences, TLC

(* ------------------------------ bounds --------------------------------- *)

\* asset::max_amount, scaled down: the largest amount an asset may hold.
MaxAmount == 2

\* DAILY_LIMIT of gfatm, scaled down: the most GFT one account may withdraw
\* in one day.
DAILY_LIMIT == 2

\* the last day number the clock of the gfatm model reaches
MaxDay == 2

\* the most polls the pollgf model stores
MaxPolls == 2

\* the largest id the messenger model hands out
MaxMsgId == 2

(* ------------------------- program constants --------------------------- *)

\* memo.size() <= 256
MaxMemo == 256

\* the fixed primary key of the single pause row
PauseId == 1

\* std::numeric_limits<option_id_t>::max(), option_id_t being uint8_t
MaxOptionId == 255

\* the tallies (double votes) are counted in tenths of a vote
WeightDen == 10

(* ------------------------------ universe ------------------------------- *)

\* _self: the account the contract is deployed on
Self == "self"

\* accounts that exist on the chain (is_account is true of them)
ChainAccounts == {"self", "alice", "bob"}

\* every name a call may carry; "ghost" is a name with no account behind it
Names == ChainAccounts \cup {"ghost"}

\* the accounts create is called with as issuer
IssuerInputs == {"alice"}

\* the accounts blacklist and unblacklist are called with
BlacklistInputs == {"alice", "bob"}

\* symbol codes a call may carry; "BAD" is a malformed code
ValidCodes == {"GFT"}
Codes == ValidCodes \cup {"BAD"}

\* decimal precisions a symbol may carry
Precisions == {2, 4}

\* amounts a call may carry: non-positive, regular, and beyond max_amount
Amounts == 0 .. (MaxAmount + 1)

\* memo lengths a call may carry
MemoLens == {MaxMemo, MaxMemo + 1}

Assets == [amount : Amounts, code : Codes, prec : Precisions]

(* ------------------------------- state --------------------------------- *)

VARIABLES
    stat,        \* stats table: symbol code -> currency_stats row
    acnts,       \* accounts tables: owner -> (symbol code -> account row)
    blacklistt,  \* blacklists table: the set of blacklisted names
    pauset,      \* pausetable: id -> paused
    last,        \* the action of the last committed transaction
    wtable,      \* gfatm withdrawals table: account -> withdrawal row
    today,       \* gfatm: the UTC day number current_day() returns
    accepted,    \* gfatm, history: account -> day -> GFT amount accepted
    polls,       \* pollgf poll table: poll id -> poll row
    votes,       \* pollgf votes tables: voter -> (poll id -> poll_vote row)
    notifications, \* messenger notification table: id -> notification row
    messages     \* messenger message tables: sender -> (id -> message row)

vars == <<stat, acnts, blacklistt, pauset, last>>

\* the state of the other contracts
atmvars == <<wtable, today, accepted>>
pollvars == <<polls, votes>>
msgvars == <<notifications, messages>>

ledger == <<stat, acnts>>
overlay == <<blacklistt, pauset>>

\* the database a handler runs against
DB == [stat |-> stat, acnts |-> acnts, blacklistt |-> blacklistt, pauset |-> pauset]

(* --------------------------- table helpers ----------------------------- *)

\* multi_index::emplace / modify: the row under key k becomes v
Put(t, k, v) == [x \in (DOMAIN t) \cup {k} |-> IF x = k THEN v ELSE t[x]]

\* multi_index::erase: the row under key k is removed
Erase(t, k) == [x \in (DOMAIN t) \ {k} |-> t[x]]

EmptyTable == [x \in {} |-> 0]

\* outcome of a handler: the database it leaves and the failure it raised
Ok(db) == [db |-> db, err |-> "ok"]
Fail(db, e) == [db |-> db, err |-> e]

(* --------------------------- asset / symbol ---------------------------- *)

\* symbol::is_valid
SymIsValid(code) == code \in ValidCodes

\* asset::is_valid: magnitude within max_amount and a valid symbol
AssetIsValid(q) == q.amount <= MaxAmount /\ q.amount >= -MaxAmount /\ SymIsValid(q.code)

(* ------------------------------ queries -------------------------------- *)

\* fault: is_paused answers what its name says, the presence of the pause row
is_paused_literal(db) == PauseId \in DOMAIN db.pauset

\* is_paused(): true exactly when the pause table has NO row with id 1
is_paused(db) == PauseId \notin DOMAIN db.pauset

\* the amount an owner holds of a symbol: the balance of its row, zero without one
BalanceOf(db, owner, code) ==
    IF code \in DOMAIN db.acnts[owner] THEN db.acnts[owner][code].amount ELSE 0

\* get_balance: accountstable.get(sym.raw()) and the balance of the row it
\* returns; get() without a row raises ("unable to find key")
get_balance(db, owner, sym) ==
    IF sym \notin DOMAIN db.acnts[owner] THEN [err |-> "RowNotFound", balance |-> 0]
    ELSE [err |-> "ok", balance |-> db.acnts[owner][sym].amount]

(* ----------------------------- sub_balance ----------------------------- *)

\* fault: a balance debited to zero is kept as a row of zero
sub_balance_keepzero(db, owner, value) ==
    LET from_acnts == db.acnts[owner] IN
    IF value.code \notin DOMAIN from_acnts THEN Fail(db, "InsufficientBalance")
    ELSE LET from == from_acnts[value.code] IN
         IF from.amount < value.amount THEN Fail(db, "InsufficientBalance")
         ELSE IF from.prec # value.prec THEN Fail(db, "PrecisionMismatch")
         ELSE Ok([db EXCEPT !.acnts[owner] =
                     Put(from_acnts, value.code,
                         [from EXCEPT !.amount = from.amount - value.amount])])

\* fault: the debit refuses a blacklisted owner
sub_balance_gated(db, owner, value) ==
    LET from_acnts == db.acnts[owner] IN
    IF owner \in db.blacklistt THEN Fail(db, "AccountBlacklisted")
    ELSE IF value.code \notin DOMAIN from_acnts THEN Fail(db, "InsufficientBalance")
    ELSE LET from == from_acnts[value.code] IN
         IF from.amount < value.amount THEN Fail(db, "InsufficientBalance")
         ELSE IF from.amount = value.amount
              THEN Ok([db EXCEPT !.acnts[owner] = Erase(from_acnts, value.code)])
              ELSE IF from.prec # value.prec THEN Fail(db, "PrecisionMismatch")
              ELSE Ok([db EXCEPT !.acnts[owner] =
                          Put(from_acnts, value.code,
                              [from EXCEPT !.amount = from.amount - value.amount])])

\* fault: the debit does not check the balance against the amount
sub_balance_overdraw(db, owner, value) ==
    LET from_acnts == db.acnts[owner] IN
    IF value.code \notin DOMAIN from_acnts THEN Fail(db, "InsufficientBalance")
    ELSE LET from == from_acnts[value.code] IN
         IF from.amount = value.amount
         THEN Ok([db EXCEPT !.acnts[owner] = Erase(from_acnts, value.code)])
         ELSE IF from.prec # value.prec THEN Fail(db, "PrecisionMismatch")
         ELSE Ok([db EXCEPT !.acnts[owner] =
                     Put(from_acnts, value.code,
                         [from EXCEPT !.amount = from.amount - value.amount])])

sub_balance(db, owner, value) ==
    LET from_acnts == db.acnts[owner] IN
    IF value.code \notin DOMAIN from_acnts THEN Fail(db, "InsufficientBalance")
    ELSE LET from == from_acnts[value.code] IN
         IF from.amount < value.amount THEN Fail(db, "InsufficientBalance")
         ELSE IF from.amount = value.amount
              THEN Ok([db EXCEPT !.acnts[owner] = Erase(from_acnts, value.code)])
              ELSE IF from.prec # value.prec THEN Fail(db, "PrecisionMismatch")
              ELSE Ok([db EXCEPT !.acnts[owner] =
                          Put(from_acnts, value.code,
                              [from EXCEPT !.amount = from.amount - value.amount])])

(* ----------------------------- add_balance ----------------------------- *)

\* fault: the credit of an existing row overwrites the balance
add_balance_overwrite(db, owner, value) ==
    LET to_acnts == db.acnts[owner] IN
    IF value.code \notin DOMAIN to_acnts
    THEN Ok([db EXCEPT !.acnts[owner] =
                Put(to_acnts, value.code, [amount |-> value.amount, prec |-> value.prec])])
    ELSE LET to == to_acnts[value.code] IN
         IF to.prec # value.prec THEN Fail(db, "PrecisionMismatch")
         ELSE Ok([db EXCEPT !.acnts[owner] =
                     Put(to_acnts, value.code, [to EXCEPT !.amount = value.amount])])

add_balance(db, owner, value) ==
    LET to_acnts == db.acnts[owner] IN
    IF value.code \notin DOMAIN to_acnts
    THEN Ok([db EXCEPT !.acnts[owner] =
                Put(to_acnts, value.code, [amount |-> value.amount, prec |-> value.prec])])
    ELSE LET to == to_acnts[value.code] IN
         IF to.prec # value.prec THEN Fail(db, "PrecisionMismatch")
         ELSE IF to.amount + value.amount > MaxAmount THEN Fail(db, "AmountOverflow")
         ELSE Ok([db EXCEPT !.acnts[owner] =
                     Put(to_acnts, value.code,
                         [to EXCEPT !.amount = to.amount + value.amount])])

(* -------------------------------- create ------------------------------- *)

\* fault: create does not look for an existing descriptor
create_overwrite(db, actor, issuer, maximum_supply) ==
    IF actor # Self THEN Fail(db, "AuthorizationDenied")
    ELSE IF ~SymIsValid(maximum_supply.code) THEN Fail(db, "InvalidSymbol")
    ELSE IF ~AssetIsValid(maximum_supply) THEN Fail(db, "InvalidAmount")
    ELSE IF ~(maximum_supply.amount > 0) THEN Fail(db, "InvalidAmount")
    ELSE Ok([db EXCEPT !.stat =
                Put(db.stat, maximum_supply.code,
                    [supply     |-> 0,
                     max_supply |-> maximum_supply.amount,
                     prec       |-> maximum_supply.prec,
                     issuer     |-> issuer])])

create(db, actor, issuer, maximum_supply) ==
    IF actor # Self THEN Fail(db, "AuthorizationDenied")
    ELSE IF ~SymIsValid(maximum_supply.code) THEN Fail(db, "InvalidSymbol")
    ELSE IF ~AssetIsValid(maximum_supply) THEN Fail(db, "InvalidAmount")
    ELSE IF ~(maximum_supply.amount > 0) THEN Fail(db, "InvalidAmount")
    ELSE IF maximum_supply.code \in DOMAIN db.stat THEN Fail(db, "DuplicateSymbol")
    ELSE Ok([db EXCEPT !.stat =
                Put(db.stat, maximum_supply.code,
                    [supply     |-> 0,
                     max_supply |-> maximum_supply.amount,
                     prec       |-> maximum_supply.prec,
                     issuer     |-> issuer])])

(* ------------------------------- transfer ------------------------------ *)

\* fault: the gate forgets the recipient
transfer_gate_fromonly(db, from, to) ==
    IF ~is_paused(db) THEN "ContractPaused"
    ELSE IF from \in db.blacklistt THEN "AccountBlacklisted"
    ELSE "ok"

\* the access-control gate at the head of transfer: "ok" or the failure raised
transfer_gate(db, from, to) ==
    IF ~is_paused(db) THEN "ContractPaused"
    ELSE IF from \in db.blacklistt THEN "AccountBlacklisted"
    ELSE IF to \in db.blacklistt THEN "AccountBlacklisted"
    ELSE "ok"

\* fault: transfer does not compare the quantity's symbol with the descriptor's
transfer_noprec(db, actor, from, to, quantity, memo) ==
    IF transfer_gate(db, from, to) # "ok" THEN Fail(db, transfer_gate(db, from, to))
    ELSE IF ~(from # to) THEN Fail(db, "SelfTransferDenied")
    ELSE IF actor # from THEN Fail(db, "AuthorizationDenied")
    ELSE IF to \notin ChainAccounts THEN Fail(db, "AccountNotFound")
    ELSE IF quantity.code \notin DOMAIN db.stat THEN Fail(db, "UnknownSymbol")
    ELSE IF ~AssetIsValid(quantity) THEN Fail(db, "InvalidAmount")
    ELSE IF ~(quantity.amount > 0) THEN Fail(db, "InvalidAmount")
    ELSE IF ~(memo <= MaxMemo) THEN Fail(db, "MemoTooLong")
    ELSE LET r1 == sub_balance(db, from, quantity) IN
         IF r1.err # "ok" THEN r1
         ELSE add_balance(r1.db, to, quantity)

\* fault: transfer does not ask for the sender's authorization
transfer_noauth(db, actor, from, to, quantity, memo) ==
    IF transfer_gate(db, from, to) # "ok" THEN Fail(db, transfer_gate(db, from, to))
    ELSE IF ~(from # to) THEN Fail(db, "SelfTransferDenied")
    ELSE IF to \notin ChainAccounts THEN Fail(db, "AccountNotFound")
    ELSE IF quantity.code \notin DOMAIN db.stat THEN Fail(db, "UnknownSymbol")
    ELSE LET st == db.stat[quantity.code] IN
         IF ~AssetIsValid(quantity) THEN Fail(db, "InvalidAmount")
         ELSE IF ~(quantity.amount > 0) THEN Fail(db, "InvalidAmount")
         ELSE IF quantity.prec # st.prec THEN Fail(db, "PrecisionMismatch")
         ELSE IF ~(memo <= MaxMemo) THEN Fail(db, "MemoTooLong")
         ELSE LET r1 == sub_balance(db, from, quantity) IN
              IF r1.err # "ok" THEN r1
              ELSE add_balance(r1.db, to, quantity)

\* fault: transfer asks for the sender's authorization before anything else
transfer_authfirst(db, actor, from, to, quantity, memo) ==
    IF actor # from THEN Fail(db, "AuthorizationDenied")
    ELSE IF transfer_gate(db, from, to) # "ok" THEN Fail(db, transfer_gate(db, from, to))
    ELSE IF ~(from # to) THEN Fail(db, "SelfTransferDenied")
    ELSE IF to \notin ChainAccounts THEN Fail(db, "AccountNotFound")
    ELSE IF quantity.code \notin DOMAIN db.stat THEN Fail(db, "UnknownSymbol")
    ELSE LET st == db.stat[quantity.code] IN
         IF ~AssetIsValid(quantity) THEN Fail(db, "InvalidAmount")
         ELSE IF ~(quantity.amount > 0) THEN Fail(db, "InvalidAmount")
         ELSE IF quantity.prec # st.prec THEN Fail(db, "PrecisionMismatch")
         ELSE IF ~(memo <= MaxMemo) THEN Fail(db, "MemoTooLong")
         ELSE LET r1 == sub_balance(db, from, quantity) IN
              IF r1.err # "ok" THEN r1
              ELSE add_balance(r1.db, to, quantity)

\* fault: transfer compares the precision before it looks at the amount
transfer_precfirst(db, actor, from, to, quantity, memo) ==
    IF transfer_gate(db, from, to) # "ok" THEN Fail(db, transfer_gate(db, from, to))
    ELSE IF ~(from # to) THEN Fail(db, "SelfTransferDenied")
    ELSE IF actor # from THEN Fail(db, "AuthorizationDenied")
    ELSE IF to \notin ChainAccounts THEN Fail(db, "AccountNotFound")
    ELSE IF quantity.code \notin DOMAIN db.stat THEN Fail(db, "UnknownSymbol")
    ELSE LET st == db.stat[quantity.code] IN
         IF quantity.prec # st.prec THEN Fail(db, "PrecisionMismatch")
         ELSE IF ~AssetIsValid(quantity) THEN Fail(db, "InvalidAmount")
         ELSE IF ~(quantity.amount > 0) THEN Fail(db, "InvalidAmount")
         ELSE IF ~(memo <= MaxMemo) THEN Fail(db, "MemoTooLong")
         ELSE LET r1 == sub_balance(db, from, quantity) IN
              IF r1.err # "ok" THEN r1
              ELSE add_balance(r1.db, to, quantity)

transfer(db, actor, from, to, quantity, memo) ==
    IF transfer_gate(db, from, to) # "ok" THEN Fail(db, transfer_gate(db, from, to))
    ELSE IF ~(from # to) THEN Fail(db, "SelfTransferDenied")
    ELSE IF actor # from THEN Fail(db, "AuthorizationDenied")
    ELSE IF to \notin ChainAccounts THEN Fail(db, "AccountNotFound")
    ELSE IF quantity.code \notin DOMAIN db.stat THEN Fail(db, "UnknownSymbol")
    ELSE LET st == db.stat[quantity.code] IN
         IF ~AssetIsValid(quantity) THEN Fail(db, "InvalidAmount")
         ELSE IF ~(quantity.amount > 0) THEN Fail(db, "InvalidAmount")
         ELSE IF quantity.prec # st.prec THEN Fail(db, "PrecisionMismatch")
         ELSE IF ~(memo <= MaxMemo) THEN Fail(db, "MemoTooLong")
         ELSE LET r1 == sub_balance(db, from, quantity) IN
              IF r1.err # "ok" THEN r1
              ELSE add_balance(r1.db, to, quantity)

(* -------------------------------- issue -------------------------------- *)

\* fault: max_supply does not follow the supply
record_issue_noraise(st, quantity) ==
    [st EXCEPT !.supply = st.supply + quantity.amount]

\* fault: max_supply is set to the new supply, above or below the old one
record_issue_setmax(st, quantity) ==
    [st EXCEPT !.supply = st.supply + quantity.amount,
               !.max_supply = st.supply + quantity.amount]

\* the row update of issue: supply grows, and max_supply follows it when passed
record_issue(st, quantity) ==
    LET newsupply == st.supply + quantity.amount IN
    [st EXCEPT !.supply = newsupply,
               !.max_supply = IF newsupply > st.max_supply THEN newsupply
                              ELSE st.max_supply]

\* fault: the transfer is detached from the issue (as a deferred action is):
\* its failure does not fail the issue
send_inline_transfer_detached(db, issuer, to, quantity, memo) ==
    LET r == transfer(db, issuer, issuer, to, quantity, memo) IN
    IF r.err = "ok" THEN r ELSE Ok(db)

\* fault: the tokens are moved with the balance helpers, past transfer's checks
send_inline_transfer_unchecked(db, issuer, to, quantity, memo) ==
    LET r1 == sub_balance(db, issuer, quantity) IN
    IF r1.err # "ok" THEN r1 ELSE add_balance(r1.db, to, quantity)

\* fault: the inline transfer is never sent
send_inline_transfer_dropped(db, issuer, to, quantity, memo) == Ok(db)

\* SEND_INLINE_ACTION(transfer, {issuer, active}, {issuer, to, quantity, memo}):
\* the transfer runs inside the issuing transaction, authorized by the issuer,
\* and its failure is the transaction's failure
send_inline_transfer(db, issuer, to, quantity, memo) ==
    transfer(db, issuer, issuer, to, quantity, memo)

\* fault: issue does not compare the quantity's precision with the descriptor's
issue_noprec(db, actor, to, quantity, memo) ==
    IF ~SymIsValid(quantity.code) THEN Fail(db, "InvalidSymbol")
    ELSE IF ~(memo <= MaxMemo) THEN Fail(db, "MemoTooLong")
    ELSE IF quantity.code \notin DOMAIN db.stat THEN Fail(db, "UnknownSymbol")
    ELSE LET st == db.stat[quantity.code] IN
         IF actor # st.issuer THEN Fail(db, "AuthorizationDenied")
         ELSE IF ~AssetIsValid(quantity) THEN Fail(db, "InvalidAmount")
         ELSE IF ~(quantity.amount > 0) THEN Fail(db, "InvalidAmount")
         ELSE IF st.supply + quantity.amount > MaxAmount THEN Fail(db, "AmountOverflow")
         ELSE LET db1 == [db EXCEPT !.stat =
                             Put(db.stat, quantity.code, record_issue(st, quantity))]
                  r2 == add_balance(db1, st.issuer, quantity)
              IN IF r2.err # "ok" THEN r2
                 ELSE IF to # st.issuer
                      THEN send_inline_transfer(r2.db, st.issuer, to, quantity, memo)
                      ELSE r2

\* fault: the supply is raised without the overflow check of asset::operator+=
issue_nooverflow(db, actor, to, quantity, memo) ==
    IF ~SymIsValid(quantity.code) THEN Fail(db, "InvalidSymbol")
    ELSE IF ~(memo <= MaxMemo) THEN Fail(db, "MemoTooLong")
    ELSE IF quantity.code \notin DOMAIN db.stat THEN Fail(db, "UnknownSymbol")
    ELSE LET st == db.stat[quantity.code] IN
         IF actor # st.issuer THEN Fail(db, "AuthorizationDenied")
         ELSE IF ~AssetIsValid(quantity) THEN Fail(db, "InvalidAmount")
         ELSE IF ~(quantity.amount > 0) THEN Fail(db, "InvalidAmount")
         ELSE IF quantity.prec # st.prec THEN Fail(db, "PrecisionMismatch")
         ELSE LET db1 == [db EXCEPT !.stat =
                             Put(db.stat, quantity.code, record_issue(st, quantity))]
                  r2 == add_balance(db1, st.issuer, quantity)
              IN IF r2.err # "ok" THEN r2
                 ELSE IF to # st.issuer
                      THEN send_inline_transfer(r2.db, st.issuer, to, quantity, memo)
                      ELSE r2

issue(db, actor, to, quantity, memo) ==
    IF ~SymIsValid(quantity.code) THEN Fail(db, "InvalidSymbol")
    ELSE IF ~(memo <= MaxMemo) THEN Fail(db, "MemoTooLong")
    ELSE IF quantity.code \notin DOMAIN db.stat THEN Fail(db, "UnknownSymbol")
    ELSE LET st == db.stat[quantity.code] IN
         IF actor # st.issuer THEN Fail(db, "AuthorizationDenied")
         ELSE IF ~AssetIsValid(quantity) THEN Fail(db, "InvalidAmount")
         ELSE IF ~(quantity.amount > 0) THEN Fail(db, "InvalidAmount")
         ELSE IF quantity.prec # st.prec THEN Fail(db, "PrecisionMismatch")
         ELSE IF st.supply + quantity.amount > MaxAmount THEN Fail(db, "AmountOverflow")
         ELSE LET db1 == [db EXCEPT !.stat =
                             Put(db.stat, quantity.code, record_issue(st, quantity))]
                  r2 == add_balance(db1, st.issuer, quantity)
              IN IF r2.err # "ok" THEN r2
                 ELSE IF to # st.issuer
                      THEN send_inline_transfer(r2.db, st.issuer, to, quantity, memo)
                      ELSE r2

(* --------------------------------- burn -------------------------------- *)

\* fault: the burn lowers max_supply and forgets the supply
record_burn_maxonly(st, quantity) ==
    [st EXCEPT !.max_supply = st.max_supply - quantity.amount]

\* fault: the burn lowers the supply and leaves max_supply
record_burn_supplyonly(st, quantity) ==
    [st EXCEPT !.supply = st.supply - quantity.amount]

\* the row update of burn: supply and max_supply both shrink by the quantity
record_burn(st, quantity) ==
    [st EXCEPT !.supply = st.supply - quantity.amount,
               !.max_supply = st.max_supply - quantity.amount]

burn(db, actor, quantity, memo) ==
    IF ~SymIsValid(quantity.code) THEN Fail(db, "InvalidSymbol")
    ELSE IF ~(memo <= MaxMemo) THEN Fail(db, "MemoTooLong")
    ELSE IF quantity.code \notin DOMAIN db.stat THEN Fail(db, "UnknownSymbol")
    ELSE LET st == db.stat[quantity.code] IN
         IF actor # st.issuer THEN Fail(db, "AuthorizationDenied")
         ELSE IF ~AssetIsValid(quantity) THEN Fail(db, "InvalidAmount")
         ELSE IF ~(quantity.amount > 0) THEN Fail(db, "InvalidAmount")
         ELSE IF quantity.prec # st.prec THEN Fail(db, "PrecisionMismatch")
         ELSE IF ~(quantity.amount <= st.supply) THEN Fail(db, "InsufficientSupply")
         ELSE LET db1 == [db EXCEPT !.stat =
                             Put(db.stat, quantity.code, record_burn(st, quantity))]
              IN sub_balance(db1, st.issuer, quantity)

(* ---------------------------- pause / unpause -------------------------- *)

\* fault: pause always emplaces a row, under the next free id when id 1 is taken
pause_emplace(db, actor) ==
    IF actor # Self THEN Fail(db, "AuthorizationDenied")
    ELSE IF PauseId \in DOMAIN db.pauset
         THEN Ok([db EXCEPT !.pauset = Put(db.pauset, PauseId + 1, TRUE)])
         ELSE Ok([db EXCEPT !.pauset = Put(db.pauset, PauseId, TRUE)])

pause(db, actor) ==
    IF actor # Self THEN Fail(db, "AuthorizationDenied")
    ELSE Ok([db EXCEPT !.pauset = Put(db.pauset, PauseId, TRUE)])

\* the key of the last row of a non-empty table (end(), then itr--)
LastKey(t) == CHOOSE k \in DOMAIN t : \A j \in DOMAIN t : j <= k

\* while (begin() != end()) erase the last row
RECURSIVE EraseAll(_)
EraseAll(t) == IF DOMAIN t = {} THEN t ELSE EraseAll(Erase(t, LastKey(t)))

\* fault: unpause does not ask for the contract's authorization
unpause_noauth(db, actor) == Ok([db EXCEPT !.pauset = EraseAll(db.pauset)])

unpause(db, actor) ==
    IF actor # Self THEN Fail(db, "AuthorizationDenied")
    ELSE Ok([db EXCEPT !.pauset = EraseAll(db.pauset)])

(* ------------------------- blacklist / unblacklist --------------------- *)

blacklist(db, actor, account, memo) ==
    IF actor # Self THEN Fail(db, "AuthorizationDenied")
    ELSE IF ~(memo <= MaxMemo) THEN Fail(db, "MemoTooLong")
    ELSE IF account \in db.blacklistt THEN Fail(db, "AlreadyBlacklisted")
    ELSE Ok([db EXCEPT !.blacklistt = db.blacklistt \cup {account}])

\* fault: unblacklist erases every row of the blacklist
unblacklist_clear(db, actor, account) ==
    IF actor # Self THEN Fail(db, "AuthorizationDenied")
    ELSE IF account \notin db.blacklistt THEN Fail(db, "NotBlacklisted")
    ELSE Ok([db EXCEPT !.blacklistt = {}])

unblacklist(db, actor, account) ==
    IF actor # Self THEN Fail(db, "AuthorizationDenied")
    ELSE IF account \notin db.blacklistt THEN Fail(db, "NotBlacklisted")
    ELSE Ok([db EXCEPT !.blacklistt = db.blacklistt \ {account}])

(* ----------------------------- transactions ---------------------------- *)

\* The host runs one action (with its inline actions) as one transaction:
\* the handler's database is committed when nothing was raised, and the
\* database of before the call stands otherwise.  A failed transaction
\* leaves no trace on the chain.
\* fault: the writes a handler made before it failed stay in the database
Host_partial(db, r) == r.db

Host(db, r) == IF r.err = "ok" THEN r.db ELSE db

Commit(r, op) ==
    LET d == Host(DB, r) IN
    /\ stat' = d.stat
    /\ acnts' = d.acnts
    /\ blacklistt' = d.blacklistt
    /\ pauset' = d.pauset
    /\ last' = IF r.err = "ok" THEN op ELSE last
    /\ UNCHANGED <<atmvars, pollvars, msgvars>>

CreateCall(actor, issuer, q) == Commit(create(DB, actor, issuer, q), "create")
IssueCall(actor, to, q, memo) == Commit(issue(DB, actor, to, q, memo), "issue")
TransferCall(actor, from, to, q, memo) ==
    Commit(transfer(DB, actor, from, to, q, memo), "transfer")
BurnCall(actor, q, memo) == Commit(burn(DB, actor, q, memo), "burn")
PauseCall(actor) == Commit(pause(DB, actor), "pause")
UnpauseCall(actor) == Commit(unpause(DB, actor), "unpause")
BlacklistCall(actor, account, memo) ==
    Commit(blacklist(DB, actor, account, memo), "blacklist")
UnblacklistCall(actor, account) == Commit(unblacklist(DB, actor, account), "unblacklist")

Create == \E actor \in ChainAccounts, issuer \in IssuerInputs, q \in Assets :
              CreateCall(actor, issuer, q)
Issue == \E actor \in ChainAccounts, to \in Names, q \in Assets, memo \in MemoLens :
              IssueCall(actor, to, q, memo)
Transfer == \E actor \in ChainAccounts, from \in ChainAccounts, to \in Names,
               q \in Assets, memo \in MemoLens :
              TransferCall(actor, from, to, q, memo)
Burn == \E actor \in ChainAccounts, q \in Assets, memo \in MemoLens :
              BurnCall(actor, q, memo)
Pause == \E actor \in ChainAccounts : PauseCall(actor)
Unpause == \E actor \in ChainAccounts : UnpauseCall(actor)
Blacklist == \E actor \in ChainAccounts, account \in BlacklistInputs, memo \in MemoLens :
              BlacklistCall(actor, account, memo)
Unblacklist == \E actor \in ChainAccounts, account \in BlacklistInputs :
              UnblacklistCall(actor, account)

\* day numbers, from the day of deployment on
Days == 0 .. MaxDay

\* the tables of gfatm, pollgf and messenger at deployment
AtmDeployed ==
    /\ wtable = EmptyTable
    /\ today = 0
    /\ accepted = [n \in ChainAccounts |-> [d \in Days |-> 0]]

PollDeployed ==
    /\ polls = EmptyTable
    /\ votes = [n \in ChainAccounts |-> EmptyTable]

MsgDeployed ==
    /\ notifications = EmptyTable
    /\ messages = [n \in ChainAccounts |-> EmptyTable]

Init ==
    /\ stat = EmptyTable
    /\ acnts = [n \in Names |-> EmptyTable]
    /\ blacklistt = {}
    /\ pauset = EmptyTable
    /\ last = "deploy"
    /\ AtmDeployed
    /\ PollDeployed
    /\ MsgDeployed

Next ==
    \/ Create
    \/ Issue
    \/ Transfer
    \/ Burn
    \/ Pause
    \/ Unpause
    \/ Blacklist
    \/ Unblacklist

Spec == Init /\ [][Next]_vars

(* ------------------------------ type sanity ---------------------------- *)

TypeOK ==
    /\ DOMAIN stat \subseteq ValidCodes
    /\ \A n \in Names : DOMAIN acnts[n] \subseteq ValidCodes
    /\ blacklistt \subseteq Names
    /\ DOMAIN pauset \subseteq {PauseId}

(***************************************************************************)
(*                       Properties of the ledger                          *)
(***************************************************************************)

\* the calls the actions draw, as records
TransferArgs ==
    [actor : ChainAccounts, from : ChainAccounts, to : Names, q : Assets, memo : MemoLens]
IssueArgs == [actor : ChainAccounts, to : Names, q : Assets, memo : MemoLens]
BurnArgs == [actor : ChainAccounts, q : Assets, memo : MemoLens]
CreateArgs == [actor : ChainAccounts, issuer : IssuerInputs, q : Assets]

\* the outcome of a call made on database db
TransferOn(db, a) == transfer(db, a.actor, a.from, a.to, a.q, a.memo)
IssueOn(db, a) == issue(db, a.actor, a.to, a.q, a.memo)
BurnOn(db, a) == burn(db, a.actor, a.q, a.memo)
CreateOn(db, a) == create(db, a.actor, a.issuer, a.q)

\* the ledger is paused when the pause row exists
Paused == PauseId \in DOMAIN pauset

\* the database with the pause row removed
Unpaused(db) == [db EXCEPT !.pauset = EmptyTable]

\* the last committed transaction was the action op
Committed(op) == last = op

RECURSIVE SumBalances(_, _, _)
SumBalances(db, S, code) ==
    IF S = {} THEN 0
    ELSE LET n == CHOOSE x \in S : TRUE
         IN BalanceOf(db, n, code) + SumBalances(db, S \ {n}, code)

\* the amount is a positive amount of the created symbol, in its precision
GoodQuantity(db, q) ==
    /\ q.code \in DOMAIN db.stat
    /\ q.amount > 0
    /\ q.amount <= MaxAmount
    /\ q.prec = db.stat[q.code].prec

\* everything transfer asks for, the pause flag aside
TransferOtherPre(db, a) ==
    /\ a.from \notin db.blacklistt
    /\ a.to \notin db.blacklistt
    /\ a.from # a.to
    /\ a.actor = a.from
    /\ a.to \in ChainAccounts
    /\ GoodQuantity(db, a.q)
    /\ a.memo <= MaxMemo
    /\ BalanceOf(db, a.from, a.q.code) >= a.q.amount

\* everything issue itself asks for, before it credits the issuer
IssueOwnPre(db, a) ==
    /\ GoodQuantity(db, a.q)
    /\ a.memo <= MaxMemo
    /\ a.actor = db.stat[a.q.code].issuer
    /\ db.stat[a.q.code].supply + a.q.amount <= MaxAmount

\* everything burn asks for
BurnPre(db, a) ==
    /\ GoodQuantity(db, a.q)
    /\ a.memo <= MaxMemo
    /\ a.actor = db.stat[a.q.code].issuer
    /\ a.q.amount <= db.stat[a.q.code].supply
    /\ a.q.amount <= BalanceOf(db, db.stat[a.q.code].issuer, a.q.code)

(* ------------------------------- C1 ------------------------------------ *)

\* C1: for every created symbol the balances of all account rows of that
\* symbol add up to the supply stored in the symbol's descriptor.
C1_Reconciliation ==
    \A c \in DOMAIN stat : SumBalances(DB, Names, c) = stat[c].supply

\* a burn has just committed, tokens remain, and part of them left the issuer
C1_Witness ==
    /\ Committed("burn")
    /\ "GFT" \in DOMAIN stat
    /\ stat["GFT"].supply > 0
    /\ BalanceOf(DB, "bob", "GFT") > 0

(* ------------------------------- C2 ------------------------------------ *)

\* C2: every existing balance row holds a strictly positive balance; a
\* transfer or a burn that debits an account to exactly zero leaves no row.
C2_RowsPositive ==
    /\ \A n \in Names : \A c \in DOMAIN acnts[n] : acnts[n][c].amount > 0
    /\ \A a \in TransferArgs :
          LET r == TransferOn(DB, a) IN
          (r.err = "ok" /\ BalanceOf(DB, a.from, a.q.code) = a.q.amount)
             => a.q.code \notin DOMAIN Host(DB, r).acnts[a.from]
    /\ \A a \in BurnArgs :
          LET r == BurnOn(DB, a) IN
          (r.err = "ok" /\ BalanceOf(DB, a.actor, a.q.code) = a.q.amount)
             => a.q.code \notin DOMAIN Host(DB, r).acnts[a.actor]

\* a transfer has just taken the issuer's whole balance: its row is gone
C2_Witness ==
    /\ Committed("transfer")
    /\ "GFT" \in DOMAIN stat
    /\ stat["GFT"].supply > 0
    /\ "GFT" \notin DOMAIN acnts[stat["GFT"].issuer]

(* ------------------------------- C3 ------------------------------------ *)

\* C3: for every token descriptor, 0 <= supply <= max_supply.
C3_SupplyWithinMax ==
    \A c \in DOMAIN stat : 0 <= stat[c].supply /\ stat[c].supply <= stat[c].max_supply

\* a burn has just lowered a supply that an issue had taken to max_supply
C3_Witness ==
    /\ Committed("burn")
    /\ "GFT" \in DOMAIN stat
    /\ stat["GFT"].supply > 0
    /\ stat["GFT"].supply = stat["GFT"].max_supply

(* ------------------------------- C4 ------------------------------------ *)

\* the inner transfer of an issue to `to` cannot pass
InnerTransferFails(db, issuer, to) ==
    \/ PauseId \in DOMAIN db.pauset
    \/ issuer \in db.blacklistt
    \/ to \in db.blacklistt
    \/ to \notin ChainAccounts

\* C4: an issue to a third party whose inner transfer fails (ledger paused,
\* issuer or recipient blacklisted, recipient not an account) fails as a
\* whole, and the database it commits is the database of before the call.
C4_IssueAtomic ==
    \A a \in IssueArgs :
        LET r == IssueOn(DB, a) IN
        (/\ IssueOwnPre(DB, a)
         /\ a.to # stat[a.q.code].issuer
         /\ InnerTransferFails(DB, stat[a.q.code].issuer, a.to))
           => r.err # "ok" /\ Host(DB, r) = DB

\* an issue to a third party whose handler has credited the issuer and whose
\* inner transfer then fails on the paused ledger
C4_Witness ==
    /\ Paused
    /\ \E a \in IssueArgs :
          /\ IssueOwnPre(DB, a)
          /\ a.to # stat[a.q.code].issuer
          /\ IssueOn(DB, a).err = "ContractPaused"
          /\ BalanceOf(IssueOn(DB, a).db, a.actor, a.q.code)
                = BalanceOf(DB, a.actor, a.q.code) + a.q.amount

(* ------------------------------- C5 ------------------------------------ *)

\* C5: a committed pause leaves the ledger paused and a committed unpause
\* leaves it not paused; while it is paused every transfer fails with
\* ContractPaused and changes nothing; while it is not, a transfer whose
\* other preconditions hold commits.
C5_PauseGatesTransfer ==
    /\ Committed("pause") => Paused
    /\ Committed("unpause") => ~Paused
    /\ \A a \in TransferArgs :
          LET r == TransferOn(DB, a) IN
          /\ Paused => r.err = "ContractPaused" /\ Host(DB, r) = DB
          /\ (~Paused /\ TransferOtherPre(DB, a)) => r.err = "ok"

\* a pause has just committed, and a transfer that has everything else it
\* asks for is refused because the ledger is paused
C5_Witness ==
    /\ Committed("pause")
    /\ \E a \in TransferArgs :
          TransferOtherPre(DB, a) /\ TransferOn(DB, a).err = "ContractPaused"

(* ------------------------------- C6 ------------------------------------ *)

\* the call's outcome r on the paused ledger is the commit u it has on the
\* same ledger without the pause row
CommitsAsUnpaused(r, u) ==
    u.err = "ok" => /\ r.err = "ok"
                    /\ r.db.stat = u.db.stat
                    /\ r.db.acnts = u.db.acnts

\* C6 as stated: while the ledger is paused, every create, burn and issue
\* (to the issuer or to anyone else) that would commit on the unpaused
\* ledger commits, with the same effect.
C6_Original ==
    Paused =>
        /\ \A a \in CreateArgs :
              CommitsAsUnpaused(CreateOn(DB, a), CreateOn(Unpaused(DB), a))
        /\ \A a \in BurnArgs :
              CommitsAsUnpaused(BurnOn(DB, a), BurnOn(Unpaused(DB), a))
        /\ \A a \in IssueArgs :
              CommitsAsUnpaused(IssueOn(DB, a), IssueOn(Unpaused(DB), a))

\* C6 amended: while the ledger is paused, every create, every burn and
\* every issue to the issuer itself that would commit on the unpaused
\* ledger commits with the same effect; an issue to another recipient fails
\* while the ledger is paused (with ContractPaused when its own
\* preconditions hold) and changes nothing.
C6_PauseAndIssue ==
    Paused =>
        /\ \A a \in CreateArgs :
              CommitsAsUnpaused(CreateOn(DB, a), CreateOn(Unpaused(DB), a))
        /\ \A a \in BurnArgs :
              CommitsAsUnpaused(BurnOn(DB, a), BurnOn(Unpaused(DB), a))
        /\ \A a \in IssueArgs :
              LET r == IssueOn(DB, a) IN
              IF a.q.code \in DOMAIN stat /\ a.to # stat[a.q.code].issuer
              THEN /\ r.err # "ok"
                   /\ Host(DB, r) = DB
                   /\ IssueOwnPre(DB, a) => r.err = "ContractPaused"
              ELSE CommitsAsUnpaused(r, IssueOn(Unpaused(DB), a))

\* an issue to the issuer itself has just committed on the paused ledger
C6_Witness ==
    /\ Committed("issue")
    /\ Paused
    /\ \A n \in Names \ {stat["GFT"].issuer} : BalanceOf(DB, n, "GFT") = 0

(* ------------------------------- C7 ------------------------------------ *)

\* C7 as stated: a transfer whose sender or recipient is blacklisted fails
\* with AccountBlacklisted and changes nothing.
C7_Original ==
    \A a \in TransferArgs :
        LET r == TransferOn(DB, a) IN
        (a.from \in blacklistt \/ a.to \in blacklistt)
           => r.err = "AccountBlacklisted" /\ Host(DB, r) = DB

\* C7 amended: a transfer whose sender or recipient is blacklisted fails and
\* changes nothing, with AccountBlacklisted when the ledger is not paused
\* and with ContractPaused when it is; a transfer neither party of which is
\* blacklisted (as after the unblacklist of the one that was) is not
\* refused with AccountBlacklisted.
C7_BlacklistGatesTransfer ==
    /\ \A a \in TransferArgs :
          LET r == TransferOn(DB, a) IN
          /\ (a.from \in blacklistt \/ a.to \in blacklistt)
                => /\ r.err = (IF Paused THEN "ContractPaused" ELSE "AccountBlacklisted")
                   /\ Host(DB, r) = DB
          /\ (a.from \notin blacklistt /\ a.to \notin blacklistt)
                => r.err # "AccountBlacklisted"
    /\ \A b \in blacklistt :
          LET u == unblacklist(DB, Self, b) IN
          /\ u.err = "ok"
          /\ \A a \in TransferArgs :
                (a.from \notin u.db.blacklistt /\ a.to \notin u.db.blacklistt)
                   => TransferOn(Host(DB, u), a).err # "AccountBlacklisted"

\* a blacklist has just committed on the paused ledger, and a transfer of
\* tokens the blacklisted sender holds is refused
C7_Witness ==
    /\ Committed("blacklist")
    /\ Paused
    /\ \E a \in TransferArgs :
          /\ a.from \in blacklistt
          /\ a.actor = a.from
          /\ GoodQuantity(DB, a.q)
          /\ BalanceOf(DB, a.from, a.q.code) >= a.q.amount
          /\ TransferOn(DB, a).err = "ContractPaused"

(* ------------------------------- C8 ------------------------------------ *)

DBnext ==
    [stat |-> stat', acnts |-> acnts', blacklistt |-> blacklistt', pauset |-> pauset']

\* C9: no committed operation (transfer, or issue to the issuer or to anyone
\* else) increases the balance of an account that is blacklisted when the
\* operation runs, the issuer's included.
C9_BlacklistedNeverCredited ==
    [][\A b \in blacklistt, c \in ValidCodes :
          BalanceOf(DBnext, b, c) <= BalanceOf(DB, b, c)]_vars

(* ------------------------------- C10 ----------------------------------- *)

\* C10: a committed transfer takes exactly the amount from the sender, gives
\* exactly the amount to the recipient (whose row then exists), and leaves
\* every other balance, every descriptor, the pause flag and the blacklist
\* as they were.
C10_TransferFrame ==
    \A a \in TransferArgs :
        LET r == TransferOn(DB, a)
            d == Host(DB, r)
        IN r.err = "ok" =>
            /\ BalanceOf(d, a.from, a.q.code) = BalanceOf(DB, a.from, a.q.code) - a.q.amount
            /\ BalanceOf(d, a.to, a.q.code) = BalanceOf(DB, a.to, a.q.code) + a.q.amount
            /\ a.q.code \in DOMAIN d.acnts[a.to]
            /\ \A n \in Names \ {a.from, a.to} : d.acnts[n] = DB.acnts[n]
            /\ d.stat = DB.stat
            /\ d.pauset = DB.pauset
            /\ d.blacklistt = DB.blacklistt

\* a transfer between the issuer and bob has just committed, and both hold
\* tokens after it
C10_Witness ==
    /\ Committed("transfer")
    /\ BalanceOf(DB, "alice", "GFT") >= 1
    /\ BalanceOf(DB, "bob", "GFT") >= 1

(* ------------------------------- C11 ----------------------------------- *)

\* the sender has no row of the symbol, or less on it than the amount
Insufficient(db, owner, q) ==
    \/ q.code \notin DOMAIN db.acnts[owner]
    \/ db.acnts[owner][q.code].amount < q.amount

\* the transfer passes every check that comes before the debit
TransferReachesDebit(db, a) ==
    /\ PauseId \notin DOMAIN db.pauset
    /\ a.from \notin db.blacklistt
    /\ a.to \notin db.blacklistt
    /\ a.from # a.to
    /\ a.actor = a.from
    /\ a.to \in ChainAccounts
    /\ GoodQuantity(db, a.q)
    /\ a.memo <= MaxMemo

\* C11: a debit of an owner that has no row of the symbol, or less on it
\* than the amount, fails with InsufficientBalance; a transfer whose sender
\* is in that case never commits and leaves the database (the balances, the
\* absence of a row for the recipient, the supply) as it was, and the
\* failure it reports when it gets as far as the debit is
\* InsufficientBalance.
C11_InsufficientBalance ==
    /\ \A owner \in Names, q \in Assets :
          Insufficient(DB, owner, q)
             => sub_balance(DB, owner, q).err = "InsufficientBalance"
    /\ \A a \in TransferArgs :
          LET r == TransferOn(DB, a) IN
          Insufficient(DB, a.from, a.q)
             => /\ r.err # "ok"
                /\ Host(DB, r) = DB
                /\ TransferReachesDebit(DB, a) => r.err = "InsufficientBalance"

\* a sender that holds tokens asks, in an otherwise regular transfer, for
\* more than it holds, and the recipient has no row
C11_Witness ==
    \E a \in TransferArgs :
        /\ TransferReachesDebit(DB, a)
        /\ BalanceOf(DB, a.from, a.q.code) >= 1
        /\ BalanceOf(DB, a.from, a.q.code) < a.q.amount
        /\ a.q.code \notin DOMAIN acnts[a.to]
        /\ TransferOn(DB, a).err = "InsufficientBalance"

(* ------------------------------- C12 ----------------------------------- *)

\* C12: a committed issue(to, amount) raises the supply by exactly the
\* amount and the balance of `to` by exactly the amount (the issuer's own
\* when to is the issuer), and leaves every other account's rows, the
\* issuer's included when to is someone else, as they were; a create
\* followed by an issue to the issuer gives the issuer's balance and the
\* supply the issued amount.
C12_IssueEffect ==
    /\ \A a \in IssueArgs :
          LET r == IssueOn(DB, a)
              d == Host(DB, r)
              c == a.q.code
          IN r.err = "ok" =>
              /\ d.stat[c].supply = DB.stat[c].supply + a.q.amount
              /\ BalanceOf(d, a.to, c) = BalanceOf(DB, a.to, c) + a.q.amount
              /\ \A n \in Names \ {a.to} : d.acnts[n] = DB.acnts[n]
    /\ \A a \in CreateArgs :
          LET r1 == CreateOn(DB, a) IN
          r1.err = "ok" =>
              \A i \in IssueArgs :
                  LET r2 == IssueOn(r1.db, i) IN
                  (i.to = a.issuer /\ r2.err = "ok")
                     => /\ BalanceOf(r2.db, a.issuer, i.q.code) = i.q.amount
                        /\ r2.db.stat[i.q.code].supply = i.q.amount

\* an issue has just committed that left tokens with the issuer and with bob
C12_Witness ==
    /\ Committed("issue")
    /\ BalanceOf(DB, stat["GFT"].issuer, "GFT") >= 1
    /\ BalanceOf(DB, "bob", "GFT") >= 1

(* ------------------------------- C13 ----------------------------------- *)

\* the larger of two numbers
Max(x, y) == IF x >= y THEN x ELSE y

\* C13: an issue that has everything it asks for (and, to a third party,
\* everything its transfer asks for) commits whatever max_supply is, and a
\* committed issue leaves max_supply at the larger of the old max_supply
\* and the new supply, so never below the old max_supply.
C13_SoftMaxSupply ==
    \A a \in IssueArgs :
        LET r == IssueOn(DB, a)
            d == Host(DB, r)
            c == a.q.code
        IN /\ (/\ IssueOwnPre(DB, a)
               /\ \/ a.to = DB.stat[c].issuer
                  \/ ~InnerTransferFails(DB, DB.stat[c].issuer, a.to))
                 => r.err = "ok"
           /\ r.err = "ok" =>
                 /\ d.stat[c].max_supply = Max(DB.stat[c].max_supply, d.stat[c].supply)
                 /\ d.stat[c].max_supply >= DB.stat[c].max_supply

\* an issue has just committed and a further issue that takes the supply
\* past max_supply commits too
C13_Witness ==
    /\ Committed("issue")
    /\ \E a \in IssueArgs :
          /\ IssueOwnPre(DB, a)
          /\ stat[a.q.code].supply + a.q.amount > stat[a.q.code].max_supply
          /\ IssueOn(DB, a).err = "ok"

(* ------------------------------- C14 ----------------------------------- *)

\* the quantity carries the code of a created symbol in another precision
WrongPrecision(db, q) ==
    q.code \in DOMAIN db.stat /\ q.prec # db.stat[q.code].prec

\* the amount is positive and within the asset range
RegularAmount(q) == q.amount > 0 /\ q.amount <= MaxAmount

\* C14: an issue, a transfer or a burn whose quantity carries the code of a
\* created symbol in a precision other than the descriptor's never commits
\* and leaves the database as it was; it reports PrecisionMismatch when the
\* call is regular in everything its handler checks before the precision;
\* and every balance row is of a created symbol, in its precision.
C14_PrecisionMismatch ==
    /\ \A n \in Names : \A c \in DOMAIN acnts[n] :
          c \in DOMAIN stat /\ acnts[n][c].prec = stat[c].prec
    /\ \A a \in IssueArgs :
          LET r == IssueOn(DB, a) IN
          WrongPrecision(DB, a.q)
             => /\ r.err # "ok"
                /\ Host(DB, r) = DB
                /\ (/\ a.memo <= MaxMemo
                    /\ a.actor = stat[a.q.code].issuer
                    /\ RegularAmount(a.q))
                      => r.err = "PrecisionMismatch"
    /\ \A a \in BurnArgs :
          LET r == BurnOn(DB, a) IN
          WrongPrecision(DB, a.q)
             => /\ r.err # "ok"
                /\ Host(DB, r) = DB
                /\ (/\ a.memo <= MaxMemo
                    /\ a.actor = stat[a.q.code].issuer
                    /\ RegularAmount(a.q))
                      => r.err = "PrecisionMismatch"
    /\ \A a \in TransferArgs :
          LET r == TransferOn(DB, a) IN
          WrongPrecision(DB, a.q)
             => /\ r.err # "ok"
                /\ Host(DB, r) = DB
                /\ (/\ ~Paused
                    /\ a.from \notin blacklistt
                    /\ a.to \notin blacklistt
                    /\ a.from # a.to
                    /\ a.actor = a.from
                    /\ a.to \in ChainAccounts
                    /\ RegularAmount(a.q))
                      => r.err = "PrecisionMismatch"

\* tokens are held, and a transfer of them that is regular but for the
\* precision of its quantity is refused for the precision
C14_Witness ==
    \E a \in TransferArgs :
        /\ WrongPrecision(DB, a.q)
        /\ a.memo <= MaxMemo
        /\ BalanceOf(DB, a.from, a.q.code) >= a.q.amount
        /\ TransferOn(DB, a).err = "PrecisionMismatch"

(* ------------------------------- C15 ----------------------------------- *)

\* C15: a create commits exactly when the contract authorizes it, the
\* maximum supply is a positive amount of a valid symbol and the symbol has
\* no descriptor; it then inserts the descriptor with supply 0 and the given
\* max_supply and issuer and changes nothing else.  A create for a symbol
\* that has a descriptor never commits and leaves the database as it was,
\* and it reports DuplicateSymbol when it is regular otherwise.
C15_Create ==
    \A a \in CreateArgs :
        LET r == CreateOn(DB, a)
            d == Host(DB, r)
            c == a.q.code
        IN /\ r.err = "ok"
                <=> /\ a.actor = Self
                    /\ SymIsValid(c)
                    /\ RegularAmount(a.q)
                    /\ c \notin DOMAIN stat
           /\ r.err = "ok"
                => /\ DOMAIN d.stat = DOMAIN stat \cup {c}
                   /\ d.stat[c] = [supply |-> 0, max_supply |-> a.q.amount,
                                   prec |-> a.q.prec, issuer |-> a.issuer]
                   /\ \A x \in DOMAIN stat : d.stat[x] = stat[x]
                   /\ d.acnts = acnts
                   /\ d.blacklistt = blacklistt
                   /\ d.pauset = pauset
           /\ c \in DOMAIN stat
                => /\ r.err # "ok"
                   /\ Host(DB, r) = DB
                   /\ (a.actor = Self /\ RegularAmount(a.q)) => r.err = "DuplicateSymbol"

\* tokens of the created symbol are held, and a regular create of the same
\* symbol is refused as a duplicate
C15_Witness ==
    /\ "GFT" \in DOMAIN stat
    /\ stat["GFT"].supply > 0
    /\ \E a \in CreateArgs :
          /\ a.q.prec # stat["GFT"].prec
          /\ CreateOn(DB, a).err = "DuplicateSymbol"

(* ------------------------------- C16 ----------------------------------- *)

\* C16: a pause, unpause, blacklist or unblacklist that the contract did not
\* authorize fails with AuthorizationDenied and leaves the database as it
\* was, and no create, issue, transfer or burn changes the pause table or
\* the blacklist.
C16_OverlayOwnerOnly ==
    /\ \A actor \in ChainAccounts \ {Self} :
          /\ pause(DB, actor).err = "AuthorizationDenied"
          /\ Host(DB, pause(DB, actor)) = DB
          /\ unpause(DB, actor).err = "AuthorizationDenied"
          /\ Host(DB, unpause(DB, actor)) = DB
          /\ \A account \in Names :
                /\ unblacklist(DB, actor, account).err = "AuthorizationDenied"
                /\ Host(DB, unblacklist(DB, actor, account)) = DB
                /\ \A memo \in MemoLens :
                      /\ blacklist(DB, actor, account, memo).err = "AuthorizationDenied"
                      /\ Host(DB, blacklist(DB, actor, account, memo)) = DB
    /\ \A a \in CreateArgs :
          LET d == Host(DB, CreateOn(DB, a)) IN
          d.pauset = pauset /\ d.blacklistt = blacklistt
    /\ \A a \in IssueArgs :
          LET d == Host(DB, IssueOn(DB, a)) IN
          d.pauset = pauset /\ d.blacklistt = blacklistt
    /\ \A a \in TransferArgs :
          LET d == Host(DB, TransferOn(DB, a)) IN
          d.pauset = pauset /\ d.blacklistt = blacklistt
    /\ \A a \in BurnArgs :
          LET d == Host(DB, BurnOn(DB, a)) IN
          d.pauset = pauset /\ d.blacklistt = blacklistt

\* the ledger is paused and bob is blacklisted: an unpause and an
\* unblacklist of bob by alice would change both, and are refused
C16_Witness ==
    /\ Paused
    /\ "bob" \in blacklistt
    /\ unpause(DB, "alice").err = "AuthorizationDenied"
    /\ unblacklist(DB, "alice", "bob").err = "AuthorizationDenied"

(* ------------------------------- C17 ----------------------------------- *)

\* C17: an issue or a burn that the symbol's issuer did not authorize, and
\* a transfer that its sender did not authorize, never commits and leaves
\* the database as it was; and no issue, burn or transfer lowers the balance
\* of an account other than the one that authorized the call.
C17_LedgerAuthorization ==
    /\ \A a \in IssueArgs :
          LET r == IssueOn(DB, a) IN
          /\ (a.q.code \in DOMAIN stat /\ a.actor # stat[a.q.code].issuer)
                => r.err # "ok" /\ Host(DB, r) = DB
          /\ \A n \in Names \ {a.actor}, c \in ValidCodes :
                BalanceOf(Host(DB, r), n, c) >= BalanceOf(DB, n, c)
    /\ \A a \in BurnArgs :
          LET r == BurnOn(DB, a) IN
          /\ (a.q.code \in DOMAIN stat /\ a.actor # stat[a.q.code].issuer)
                => r.err # "ok" /\ Host(DB, r) = DB
          /\ \A n \in Names \ {a.actor}, c \in ValidCodes :
                BalanceOf(Host(DB, r), n, c) >= BalanceOf(DB, n, c)
    /\ \A a \in TransferArgs :
          LET r == TransferOn(DB, a) IN
          /\ a.actor # a.from => r.err # "ok" /\ Host(DB, r) = DB
          /\ \A n \in Names \ {a.actor}, c \in ValidCodes :
                BalanceOf(Host(DB, r), n, c) >= BalanceOf(DB, n, c)

\* bob holds tokens, and a transfer of them that bob did not authorize, and
\* that is regular otherwise, is refused for the authorization
C17_Witness ==
    \E a \in TransferArgs :
        /\ a.from = "bob"
        /\ a.actor # "bob"
        /\ GoodQuantity(DB, a.q)
        /\ BalanceOf(DB, "bob", a.q.code) >= a.q.amount
        /\ TransferOn(DB, a).err = "AuthorizationDenied"

(* ------------------------------- C18 ----------------------------------- *)

FirstFailureAsStated(db, a) ==
    IF PauseId \in DOMAIN db.pauset THEN "ContractPaused"
    ELSE IF a.from \in db.blacklistt \/ a.to \in db.blacklistt THEN "AccountBlacklisted"
    ELSE IF a.from = a.to THEN "SelfTransferDenied"
    ELSE IF a.to \notin ChainAccounts THEN "AccountNotFound"
    ELSE IF a.q.code \notin DOMAIN db.stat THEN "UnknownSymbol"
    ELSE IF a.q.prec # db.stat[a.q.code].prec THEN "PrecisionMismatch"
    ELSE IF a.q.amount <= 0 THEN "InvalidAmount"
    ELSE IF a.memo > MaxMemo THEN "MemoTooLong"
    ELSE "ok"

\* the same with the amount (not positive, or beyond the asset range) ahead
\* of the precision
FirstFailureAmountFirst(db, a) ==
    IF PauseId \in DOMAIN db.pauset THEN "ContractPaused"
    ELSE IF a.from \in db.blacklistt \/ a.to \in db.blacklistt THEN "AccountBlacklisted"
    ELSE IF a.from = a.to THEN "SelfTransferDenied"
    ELSE IF a.to \notin ChainAccounts THEN "AccountNotFound"
    ELSE IF a.q.code \notin DOMAIN db.stat THEN "UnknownSymbol"
    ELSE IF a.q.amount <= 0 \/ a.q.amount > MaxAmount THEN "InvalidAmount"
    ELSE IF a.q.prec # db.stat[a.q.code].prec THEN "PrecisionMismatch"
    ELSE IF a.memo > MaxMemo THEN "MemoTooLong"
    ELSE "ok"

\* C19 as stated: a transfer authorized by its sender, with an amount in
\* the asset range, that violates a precondition fails with the failure of
\* the first violated one in the order paused, blacklisted, self-transfer,
\* recipient not an account, symbol unknown or precision mismatch, amount
\* not positive, memo too long.
C19_Original ==
    \A a \in TransferArgs :
        (/\ a.actor = a.from
         /\ a.q.amount <= MaxAmount
         /\ FirstFailureAsStated(DB, a) # "ok")
           => TransferOn(DB, a).err = FirstFailureAsStated(DB, a)

\* C19 amended: a transfer authorized by its sender that violates a
\* precondition fails with the failure of the first violated one in the
\* order paused, blacklisted, self-transfer, recipient not an account,
\* symbol unknown, amount not positive (or out of range), precision
\* mismatch, memo too long: with a precision mismatch and a non-positive
\* amount it reports InvalidAmount.
C19_TransferFailureOrder ==
    \A a \in TransferArgs :
        (a.actor = a.from /\ FirstFailureAmountFirst(DB, a) # "ok")
           => TransferOn(DB, a).err = FirstFailureAmountFirst(DB, a)

\* on a ledger with tokens, a transfer by its sender whose only faults are a
\* precision mismatch and an amount of zero is refused for the amount
C19_Witness ==
    /\ "GFT" \in DOMAIN stat
    /\ stat["GFT"].supply > 0
    /\ \E a \in TransferArgs :
          /\ a.actor = a.from
          /\ a.q.amount <= 0
          /\ WrongPrecision(DB, a.q)
          /\ a.memo <= MaxMemo
          /\ FirstFailureAsStated(DB, a) = "PrecisionMismatch"
          /\ TransferOn(DB, a).err = "InvalidAmount"

(* ------------------------------- C20 ----------------------------------- *)

\* C20: after a committed unpause the pause row is absent and is_paused()
\* is false, and a second unpause by the contract does not fail and leaves
\* the row absent and is_paused() false again.
C20_UnpauseIdempotent ==
    Committed("unpause") =>
        LET u == unpause(DB, Self)
            d == Host(DB, u)
        IN /\ DOMAIN pauset = {}
           /\ ~is_paused(DB)
           /\ u.err = "ok"
           /\ DOMAIN d.pauset = {}
           /\ ~is_paused(d)

(* ------------------------------- C21 ----------------------------------- *)

\* C21: the pause table holds at most one row, the row of id 1 with
\* paused = true, and a pause by the contract on a paused ledger does not
\* fail and leaves the whole state as it is.
C21_PauseIdempotent ==
    /\ DOMAIN pauset \subseteq {PauseId}
    /\ Paused =>
          /\ pauset[PauseId] = TRUE
          /\ pause(DB, Self).err = "ok"
          /\ Host(DB, pause(DB, Self)) = DB

\* a pause has committed, the ledger is paused and a further pause is accepted
C21_Witness ==
    /\ Committed("pause")
    /\ Paused
    /\ pause(DB, Self).err = "ok"

(* ------------------------------- C22 ----------------------------------- *)

\* C22: the balance query never fails: for every owner and every created
\* symbol, get_balance returns the stored balance when the owner has a row
\* and zero when the owner has none.
C22_BalanceQueryTotal ==
    \A n \in Names, c \in DOMAIN stat :
        /\ get_balance(DB, n, c).err = "ok"
        /\ get_balance(DB, n, c).balance = BalanceOf(DB, n, c)

(* ------------------------------- C23 ----------------------------------- *)

\* an issue that passes every check of issue ahead of the supply update
IssueReachesSupply(db, a) ==
    /\ GoodQuantity(db, a.q)
    /\ a.memo <= MaxMemo
    /\ a.actor = db.stat[a.q.code].issuer

\* C23: supplies and balances stay within 0 .. asset maximum and every
\* balance is at most its supply; an issue whose amount (itself within the
\* maximum) would take the supply or the issuer's credited balance past the
\* maximum fails (with AmountOverflow when it is otherwise acceptable) and
\* changes nothing; no transfer fails for an overflow of its credit.
C23_OverflowFailsClosed ==
    /\ \A c \in DOMAIN stat : stat[c].supply >= 0 /\ stat[c].supply <= MaxAmount
    /\ \A n \in Names : \A c \in DOMAIN acnts[n] :
          /\ acnts[n][c].amount >= 0
          /\ acnts[n][c].amount <= MaxAmount
          /\ c \in DOMAIN stat => acnts[n][c].amount <= stat[c].supply
    /\ \A a \in IssueArgs :
          LET r == IssueOn(DB, a) IN
          (/\ a.q.code \in DOMAIN stat
           /\ a.q.amount <= MaxAmount
           /\ \/ stat[a.q.code].supply + a.q.amount > MaxAmount
              \/ BalanceOf(DB, stat[a.q.code].issuer, a.q.code) + a.q.amount > MaxAmount)
             => /\ r.err # "ok"
                /\ Host(DB, r) = DB
                /\ IssueReachesSupply(DB, a) => r.err = "AmountOverflow"
    /\ \A a \in TransferArgs : TransferOn(DB, a).err # "AmountOverflow"

\* the supply is at the maximum, other accounts hold it, and an otherwise
\* acceptable issue of one more unit is refused for the overflow
C23_Witness ==
    /\ "GFT" \in DOMAIN stat
    /\ stat["GFT"].supply = MaxAmount
    /\ BalanceOf(DB, stat["GFT"].issuer, "GFT") = 0
    /\ \E a \in IssueArgs :
          /\ IssueReachesSupply(DB, a)
          /\ a.q.amount = 1
          /\ IssueOn(DB, a).err = "AmountOverflow"

(* ------------------------------- C24 ----------------------------------- *)

\* a burn that passes every check of burn, of an amount within the supply
\* that the issuer's own balance does not cover
BurnBeyondOwnBalance(db, a) ==
    /\ GoodQuantity(db, a.q)
    /\ a.memo <= MaxMemo
    /\ a.actor = db.stat[a.q.code].issuer
    /\ a.q.amount <= db.stat[a.q.code].supply
    /\ a.q.amount > BalanceOf(db, db.stat[a.q.code].issuer, a.q.code)

\* C24: a burn of 0 < amount <= supply that exceeds the issuer's own
\* balance fails with InsufficientBalance, and supply, max_supply and all
\* balances are those of before the call.
C24_BurnUndone ==
    \A a \in BurnArgs :
        LET r == BurnOn(DB, a) IN
        BurnBeyondOwnBalance(DB, a)
           => /\ r.err = "InsufficientBalance"
              /\ Host(DB, r).stat = stat
              /\ Host(DB, r).acnts = acnts

\* bob holds part of the supply, and a burn of more than the issuer's own
\* balance fails in the debit, after the handler had lowered the supply
C24_Witness ==
    /\ BalanceOf(DB, "bob", "GFT") > 0
    /\ \E a \in BurnArgs :
          LET r == BurnOn(DB, a) IN
          /\ BurnBeyondOwnBalance(DB, a)
          /\ r.err = "InsufficientBalance"
          /\ r.db.stat[a.q.code].supply < stat[a.q.code].supply

(* ------------------------------- C25 ----------------------------------- *)

\* every issue that commits raises the supply of its symbol, and every burn
\* that commits lowers the supply and max_supply of its symbol by one amount
C25_CommittedCalls ==
    /\ \A a \in IssueArgs :
          LET r == IssueOn(DB, a) IN
          r.err = "ok" => r.db.stat[a.q.code].supply > stat[a.q.code].supply
    /\ \A a \in BurnArgs :
          LET r == BurnOn(DB, a) IN
          r.err = "ok"
             => /\ r.db.stat[a.q.code].supply < stat[a.q.code].supply
                /\ stat[a.q.code].max_supply - r.db.stat[a.q.code].max_supply
                      = stat[a.q.code].supply - r.db.stat[a.q.code].supply

\* one step of the ledger, seen from the descriptors it starts with
C25_Step ==
    \A c \in DOMAIN stat :
        /\ c \in DOMAIN stat'
        /\ stat'[c].issuer = stat[c].issuer
        /\ stat'[c].supply > stat[c].supply => last' = "issue"
        /\ stat'[c].supply < stat[c].supply
              => /\ last' = "burn"
                 /\ stat[c].max_supply - stat'[c].max_supply
                       = stat[c].supply - stat'[c].supply

\* C25: a created descriptor exists in every later state with the issuer it
\* was created with; its supply rises only in a committed issue and falls
\* only in a committed burn; every committed issue raises the supply, and
\* every committed burn lowers supply and max_supply by the same amount.
C25_DescriptorLifecycle == [](C25_CommittedCalls) /\ [][C25_Step]_vars

\* a burn has committed and has left part of the supply
C25_Witness ==
    /\ Committed("burn")
    /\ "GFT" \in DOMAIN stat
    /\ stat["GFT"].supply > 0

(* ------------------------------- C26 ----------------------------------- *)

\* the ledger half of database d is that of the current state
SameLedger(d) == d.stat = stat /\ d.acnts = acnts

\* the overlay half of database d is that of the current state
SameOverlay(d) == d.pauset = pauset /\ d.blacklistt = blacklistt

\* C26: pause, unpause, blacklist and unblacklist leave descriptors and
\* balance rows as they are; create, issue, transfer and burn leave the
\* pause row and the blacklist as they are; blacklist(a) and unblacklist(a)
\* change the membership of a only, blacklist failing on a present and
\* unblacklist on an absent account, the set unchanged.
C26_Separation ==
    /\ \A actor \in ChainAccounts :
          /\ SameLedger(pause(DB, actor).db)
          /\ pause(DB, actor).db.blacklistt = blacklistt
          /\ SameLedger(unpause(DB, actor).db)
          /\ unpause(DB, actor).db.blacklistt = blacklistt
    /\ \A actor \in ChainAccounts, account \in BlacklistInputs, memo \in MemoLens :
          LET r == blacklist(DB, actor, account, memo)
              d == Host(DB, r)
          IN /\ SameLedger(r.db)
             /\ r.db.pauset = pauset
             /\ d.blacklistt \ {account} = blacklistt \ {account}
             /\ r.err = "ok" => account \in d.blacklistt
             /\ account \in blacklistt => r.err # "ok" /\ d.blacklistt = blacklistt
    /\ \A actor \in ChainAccounts, account \in BlacklistInputs :
          LET r == unblacklist(DB, actor, account)
              d == Host(DB, r)
          IN /\ SameLedger(r.db)
             /\ r.db.pauset = pauset
             /\ d.blacklistt \ {account} = blacklistt \ {account}
             /\ r.err = "ok" => account \notin d.blacklistt
             /\ account \notin blacklistt => r.err # "ok" /\ d.blacklistt = blacklistt
    /\ \A a \in CreateArgs : SameOverlay(CreateOn(DB, a).db)
    /\ \A a \in IssueArgs : SameOverlay(IssueOn(DB, a).db)
    /\ \A a \in TransferArgs : SameOverlay(TransferOn(DB, a).db)
    /\ \A a \in BurnArgs : SameOverlay(BurnOn(DB, a).db)

\* tokens are held, two accounts were blacklisted and one of them has been
\* taken off the list again
C26_Witness ==
    /\ Committed("unblacklist")
    /\ blacklistt = {"bob"}
    /\ \E n \in Names : BalanceOf(DB, n, "GFT") > 0
    /\ unblacklist(DB, Self, "alice").err = "NotBlacklisted"
    /\ blacklist(DB, Self, "bob", MaxMemo).err = "AlreadyBlacklisted"

(* ------------------------------- C27 ----------------------------------- *)

\* C27: every balance row carries the code and the precision of an existing
\* descriptor and a balance of at most that descriptor's supply; a transfer
\* or a burn of a symbol that has no descriptor fails and changes no row.
C27_RowsOfCreatedTokens ==
    /\ \A n \in Names : \A c \in DOMAIN acnts[n] :
          /\ c \in DOMAIN stat
          /\ acnts[n][c].prec = stat[c].prec
          /\ acnts[n][c].amount <= stat[c].supply
    /\ \A a \in TransferArgs :
          a.q.code \notin DOMAIN stat
             => TransferOn(DB, a).err # "ok" /\ Host(DB, TransferOn(DB, a)).acnts = acnts
    /\ \A a \in BurnArgs :
          a.q.code \notin DOMAIN stat
             => BurnOn(DB, a).err # "ok" /\ Host(DB, BurnOn(DB, a)).acnts = acnts

\* two accounts hold rows of the created token after a transfer
C27_Witness ==
    /\ Committed("transfer")
    /\ "GFT" \in DOMAIN stat
    /\ \E n, m \in Names :
          /\ n # m
          /\ "GFT" \in DOMAIN acnts[n]
          /\ "GFT" \in DOMAIN acnts[m]

(***************************************************************************)
(*                    gfatm: the ATM withdrawal limiter                    *)
(***************************************************************************)

\* the token contract and the symbol whose withdrawals are limited
GFT_TOKEN_CONTRACT == "gft.token"
GFT_SYMBOL == [code |-> "GFT", prec |-> 4]

\* the contracts a transfer notification may come from
TokenContracts == {GFT_TOKEN_CONTRACT, "eosio.token"}

\* the symbols and amounts of the notified quantities
AtmSymbols == {GFT_SYMBOL, [code |-> "GFT", prec |-> 2], [code |-> "EOS", prec |-> 4]}
AtmAmounts == (0 - 1) .. (DAILY_LIMIT + 1)

\* extended_asset(quantity, code)
ExtendedAssets == [contract : TokenContracts, symbol : AtmSymbols, amount : AtmAmounts]

\* current_day(): the UTC day number of the block being applied
current_day == today

\* fault: a withdrawal on a new day is added to the total of the old day
handle_transfer_noreset(wt, from, to, quantity) ==
    IF from = Self THEN Ok(wt)
    ELSE IF quantity.contract # GFT_TOKEN_CONTRACT \/ quantity.symbol # GFT_SYMBOL
         THEN Ok(wt)
    ELSE IF quantity.amount <= 0 THEN Ok(wt)
    ELSE LET found == from \in DOMAIN wt
             already_withdrawn == IF found THEN wt[from].amount_withdrawn ELSE 0
             new_total == already_withdrawn + quantity.amount
         IN IF ~(new_total <= DAILY_LIMIT) THEN Fail(wt, "DailyLimitExceeded")
            ELSE Ok(Put(wt, from, [amount_withdrawn  |-> new_total,
                                   last_withdraw_day |-> current_day]))

\* gfatm::handle_transfer.  The sum of two amounts of at most 2^62 is below
\* 2^64: new_total does not wrap.
handle_transfer(wt, from, to, quantity) ==
    IF from = Self THEN Ok(wt)
    ELSE IF quantity.contract # GFT_TOKEN_CONTRACT \/ quantity.symbol # GFT_SYMBOL
         THEN Ok(wt)
    ELSE IF quantity.amount <= 0 THEN Ok(wt)
    ELSE LET found == from \in DOMAIN wt
             user_day == IF found THEN wt[from].last_withdraw_day ELSE 0
             already_withdrawn ==
                 IF ~found \/ user_day # current_day THEN 0
                 ELSE wt[from].amount_withdrawn
             new_total == already_withdrawn + quantity.amount
         IN IF ~(new_total <= DAILY_LIMIT) THEN Fail(wt, "DailyLimitExceeded")
            ELSE IF ~found
                 THEN Ok(Put(wt, from, [amount_withdrawn  |-> quantity.amount,
                                        last_withdraw_day |-> current_day]))
            ELSE IF user_day # current_day
                 THEN Ok(Put(wt, from, [amount_withdrawn  |-> quantity.amount,
                                        last_withdraw_day |-> current_day]))
            ELSE Ok(Put(wt, from, [wt[from] EXCEPT !.amount_withdrawn = new_total]))

\* gfatm::config: nothing is stored
config(wt, timezone, daily_limit) == Ok(wt)

\* the quantity is a positive amount of the limited token
CountedWithdrawal(from, quantity) ==
    /\ from # Self
    /\ quantity.contract = GFT_TOKEN_CONTRACT
    /\ quantity.symbol = GFT_SYMBOL
    /\ quantity.amount > 0

\* apply(receiver, code, transfer) with code # receiver: the notification
\* of a transfer of contract `code`
AtmTransfer ==
    \E from \in ChainAccounts, to \in ChainAccounts, quantity \in ExtendedAssets :
        LET r == handle_transfer(wtable, from, to, quantity) IN
        /\ wtable' = Host(wtable, r)
        /\ accepted' = IF r.err = "ok" /\ CountedWithdrawal(from, quantity)
                       THEN [accepted EXCEPT ![from][today] = @ + quantity.amount]
                       ELSE accepted
        /\ UNCHANGED <<today, vars, pollvars, msgvars>>

\* apply(receiver, receiver, config)
AtmConfig ==
    \E timezone \in {0, 3}, daily_limit \in {0, DAILY_LIMIT + 1} :
        /\ wtable' = Host(wtable, config(wtable, timezone, daily_limit))
        /\ UNCHANGED <<today, accepted, vars, pollvars, msgvars>>

\* the chain's clock passes midnight UTC
NextDay ==
    /\ today < MaxDay
    /\ today' = today + 1
    /\ UNCHANGED <<wtable, accepted, vars, pollvars, msgvars>>

NextAtm ==
    \/ AtmTransfer
    \/ AtmConfig
    \/ NextDay

SpecAtm == Init /\ [][NextAtm]_atmvars

(* ------------------------------- C28 ----------------------------------- *)

\* C28: every stored amount_withdrawn is at most DAILY_LIMIT and is the sum
\* of the GFT amounts accepted from the account on its last_withdraw_day; a
\* call that would take the total of the day above DAILY_LIMIT
\* fails and leaves the table as it is; an accepted call on another day
\* than the row's sets the total to the call's amount; a call from the
\* contract itself, for another token or contract, or with amount <= 0
\* returns without changing a row.
C28_DailyLimit ==
    /\ \A a \in DOMAIN wtable :
          /\ wtable[a].amount_withdrawn <= DAILY_LIMIT
          /\ wtable[a].last_withdraw_day \in Days
          /\ wtable[a].amount_withdrawn = accepted[a][wtable[a].last_withdraw_day]
    /\ \A from \in ChainAccounts, to \in ChainAccounts, quantity \in ExtendedAssets :
          LET r == handle_transfer(wtable, from, to, quantity)
              d == Host(wtable, r)
          IN /\ ~CountedWithdrawal(from, quantity) => r.err = "ok" /\ d = wtable
             /\ (CountedWithdrawal(from, quantity)
                   /\ accepted[from][today] + quantity.amount > DAILY_LIMIT)
                   => r.err = "DailyLimitExceeded" /\ d = wtable
             /\ (CountedWithdrawal(from, quantity)
                   /\ accepted[from][today] + quantity.amount <= DAILY_LIMIT)
                   => /\ r.err = "ok"
                      /\ d[from].last_withdraw_day = today
                      /\ d[from].amount_withdrawn = accepted[from][today] + quantity.amount
                      /\ \A o \in DOMAIN d \ {from} : o \in DOMAIN wtable /\ d[o] = wtable[o]
             /\ (CountedWithdrawal(from, quantity) /\ r.err = "ok"
                   /\ from \in DOMAIN wtable /\ wtable[from].last_withdraw_day # today)
                   => d[from].amount_withdrawn = quantity.amount

\* alice withdrew on an earlier day, has reached the limit today, and a
\* further withdrawal of hers is refused
C28_Witness ==
    /\ today > 0
    /\ "alice" \in DOMAIN wtable
    /\ wtable["alice"].last_withdraw_day = today
    /\ wtable["alice"].amount_withdrawn = DAILY_LIMIT
    /\ accepted["alice"][today - 1] > 0
    /\ handle_transfer(wtable, "alice", Self,
                       [contract |-> GFT_TOKEN_CONTRACT, symbol |-> GFT_SYMBOL, amount |-> 1]).err
          = "DailyLimitExceeded"

(***************************************************************************)
(*                       pollgf: the poll contract                         *)
(***************************************************************************)

\* the accounts that create polls and vote
Voters == {"alice", "bob"}

\* the questions and the option lists of the calls
Questions == {"q", ""}
OptionLists == {<< >>, <<"a">>, <<"a", "b">>, <<"a", "">>}
OptionIds == 0 .. 2
PollIds == 0 .. MaxPolls

\* token_info_t: the symbol of the weighting token (its precision is what
\* to_weight reads); a standard poll carries the default token_info_t()
NoToken == [code |-> "", prec |-> 0]
TokenInfos == {[code |-> "GFT", prec |-> 0], [code |-> "GFT", prec |-> 1]}

\* what token.get_balance(voter, symbol) of the token contract answers: the
\* amount of the voter's row, or no row at all
NoRow == 0 - 1
TokenBalances == {NoRow, 0, 1}

\* the databases of pollgf
PollDB == [polls |-> polls, votes |-> votes]

\* multi_index::available_primary_key: the key after the last one, 0 when empty
available_primary_key(t) == IF DOMAIN t = {} THEN 0 ELSE LastKey(t) + 1

\* to_weight: stake.amount / 10^precision, in tenths
to_weight(balance, token) == (balance * WeightDen) \div (10 ^ token.prec)

\* poll::set over the option names: one result of zero votes per option
RECURSIVE option_results(_)
option_results(options) ==
    IF options = << >> THEN << >>
    ELSE <<[name |-> Head(options), votes |-> 0]>> \o option_results(Tail(options))

\* pollgf::store_poll with poll::set
store_poll(db, question, poll_owner, options, is_token_poll, token) ==
    IF ~(Len(options) < MaxOptionId) THEN Fail(db, "TooManyOptions")
    ELSE IF question = "" THEN Fail(db, "EmptyQuestion")
    ELSE IF \E i \in 1 .. Len(options) : options[i] = "" THEN Fail(db, "EmptyOption")
    ELSE LET id == available_primary_key(db.polls) IN
         Ok([db EXCEPT !.polls =
                Put(db.polls, id, [id            |-> id,
                                   question      |-> question,
                                   results       |-> option_results(options),
                                   is_token_poll |-> is_token_poll,
                                   token         |-> token])])

\* pollgf::newpoll
newpoll(db, question, payer, options) ==
    store_poll(db, question, payer, options, FALSE, NoToken)

\* pollgf::newtokenpoll; exists is the answer of token.exists(token_inf.name())
newtokenpoll(db, question, owner, options, token_inf, exists) ==
    IF ~exists THEN Fail(db, "UnknownSymbol")
    ELSE store_poll(db, question, owner, options, TRUE, token_inf)

\* pollgf::store_vote: the vote row of the voter, then the tally of the option
store_vote(db, p, voter, option_id, weight) ==
    IF ~(weight > 0) THEN Fail(db, "InvalidWeight")
    ELSE LET db1 == [db EXCEPT !.votes[voter] =
                        Put(db.votes[voter], p.id,
                            [poll_id |-> p.id, option_id |-> option_id])]
         IN Ok([db1 EXCEPT !.polls[p.id].results[option_id + 1].votes = @ + weight])

\* pollgf::store_token_vote; balance is the answer of token.get_balance
store_token_vote(db, p, voter, option_id, balance) ==
    IF balance = NoRow THEN Fail(db, "RowNotFound")
    ELSE IF ~(balance > 0) THEN Fail(db, "InvalidAmount")
    ELSE store_vote(db, p, voter, option_id, to_weight(balance, p.token))

\* fault: vote does not look for an earlier vote of the voter
vote_nodup(db, actor, id, voter, option_id, balance) ==
    IF actor # voter THEN Fail(db, "AuthorizationDenied")
    ELSE IF id \notin DOMAIN db.polls THEN Fail(db, "PollNotFound")
    ELSE LET p == db.polls[id] IN
         IF ~(option_id < Len(p.results)) THEN Fail(db, "OptionNotFound")
         ELSE IF p.is_token_poll THEN store_token_vote(db, p, voter, option_id, balance)
         ELSE store_vote(db, p, voter, option_id, WeightDen)

\* pollgf::vote
vote(db, actor, id, voter, option_id, balance) ==
    IF actor # voter THEN Fail(db, "AuthorizationDenied")
    ELSE IF id \notin DOMAIN db.polls THEN Fail(db, "PollNotFound")
    ELSE LET p == db.polls[id] IN
         IF ~(option_id < Len(p.results)) THEN Fail(db, "OptionNotFound")
         ELSE IF p.id \in DOMAIN db.votes[voter] THEN Fail(db, "AlreadyVoted")
         ELSE IF p.is_token_poll THEN store_token_vote(db, p, voter, option_id, balance)
         ELSE store_vote(db, p, voter, option_id, WeightDen)

\* one pollgf transaction
CommitPoll(r) ==
    /\ polls' = Host(PollDB, r).polls
    /\ votes' = Host(PollDB, r).votes
    /\ UNCHANGED <<vars, atmvars, msgvars>>

NewPoll ==
    \E question \in Questions, payer \in Voters, options \in OptionLists :
        /\ Cardinality(DOMAIN polls) < MaxPolls
        /\ CommitPoll(newpoll(PollDB, question, payer, options))

NewTokenPoll ==
    \E question \in Questions, owner \in Voters, options \in OptionLists,
       token_inf \in TokenInfos, exists \in BOOLEAN :
        /\ Cardinality(DOMAIN polls) < MaxPolls
        /\ CommitPoll(newtokenpoll(PollDB, question, owner, options, token_inf, exists))

Vote ==
    \E actor \in Voters, id \in PollIds, voter \in Voters, option_id \in OptionIds,
       balance \in TokenBalances :
        CommitPoll(vote(PollDB, actor, id, voter, option_id, balance))

NextPoll ==
    \/ NewPoll
    \/ NewTokenPoll
    \/ Vote

SpecPoll == Init /\ [][NextPoll]_pollvars

(* ------------------------------- C29 ----------------------------------- *)

\* the voters whose vote row for poll id names option o
VotersFor(id, o) ==
    {v \in Voters : id \in DOMAIN votes[v] /\ votes[v][id].option_id = o}

\* C29: a vote commits only with the voter's authorization, for an existing
\* poll and an option below the poll's number of options; a vote of an
\* account that has a vote row for the poll fails and leaves polls and
\* votes as they are; in every standard poll the tally of each option is one
\* whole vote for each account whose vote row for the poll names the option.
C29_OneVotePerAccount ==
    /\ \A actor \in Voters, id \in PollIds, voter \in Voters, option_id \in OptionIds,
          balance \in TokenBalances :
          LET r == vote(PollDB, actor, id, voter, option_id, balance) IN
          /\ r.err = "ok"
                => /\ actor = voter
                   /\ id \in DOMAIN polls
                   /\ option_id < Len(polls[id].results)
          /\ id \in DOMAIN votes[voter]
                => /\ r.err # "ok"
                   /\ Host(PollDB, r) = PollDB
                   /\ (actor = voter /\ option_id < Len(polls[id].results))
                         => r.err = "AlreadyVoted"
    /\ \A id \in DOMAIN polls :
          ~polls[id].is_token_poll
             => \A o \in 1 .. Len(polls[id].results) :
                   polls[id].results[o].votes
                      = WeightDen * Cardinality(VotersFor(id, o - 1))

\* a standard poll of two options in which both accounts have voted, for
\* different options, and a second vote of alice is refused
C29_Witness ==
    \E id \in DOMAIN polls :
        /\ ~polls[id].is_token_poll
        /\ Len(polls[id].results) = 2
        /\ VotersFor(id, 0) = {"alice"}
        /\ VotersFor(id, 1) = {"bob"}
        /\ vote(PollDB, "alice", id, "alice", 1, NoRow).err = "AlreadyVoted"

(***************************************************************************)
(*                        messenger: private messages                      *)
(***************************************************************************)

\* the accounts that send and receive, and the names a message may go to
Senders == {"alice", "bob"}
Recipients == Senders \cup {"ghost"}

\* message texts (one of them empty), block times, and the ids of the calls
Texts == {"hi", ""}
Times == {1, 2}
MsgIds == 0 .. (MaxMsgId + 1)

\* the databases of messenger
MsgDB == [notifications |-> notifications, messages |-> messages]

\* fault: the new id is the next key of the sender's own message table
sendmsg_ownkey(db, actor, from, to, msg, now) ==
    IF actor # from THEN Fail(db, "AuthorizationDenied")
    ELSE IF ~(Len(msg) > 0) THEN Fail(db, "EmptyMessage")
    ELSE LET newid == available_primary_key(db.messages[from]) IN
         IF newid \in DOMAIN db.notifications THEN Fail(db, "DuplicateKey")
         ELSE IF newid \in DOMAIN db.messages[from] THEN Fail(db, "DuplicateKey")
         ELSE Ok([db EXCEPT
                    !.notifications =
                        Put(db.notifications, newid,
                            [id |-> newid, from |-> from, to |-> to]),
                    !.messages[from] =
                        Put(db.messages[from], newid,
                            [id |-> newid, to |-> to, text |-> msg,
                             send_at |-> now, type |-> 0])])

\* messenger::sendmsg; an emplace under a primary key the table holds
\* already is refused by the database and fails the transaction
sendmsg(db, actor, from, to, msg, now) ==
    IF actor # from THEN Fail(db, "AuthorizationDenied")
    ELSE IF ~(Len(msg) > 0) THEN Fail(db, "EmptyMessage")
    ELSE LET newid == available_primary_key(db.notifications) IN
         IF newid \in DOMAIN db.notifications THEN Fail(db, "DuplicateKey")
         ELSE IF newid \in DOMAIN db.messages[from] THEN Fail(db, "DuplicateKey")
         ELSE Ok([db EXCEPT
                    !.notifications =
                        Put(db.notifications, newid,
                            [id |-> newid, from |-> from, to |-> to]),
                    !.messages[from] =
                        Put(db.messages[from], newid,
                            [id |-> newid, to |-> to, text |-> msg,
                             send_at |-> now, type |-> 0])])

\* messenger::receivemsg
receivemsg(db, actor, to, id) ==
    IF actor # to THEN Fail(db, "AuthorizationDenied")
    ELSE IF id \notin DOMAIN db.notifications THEN Fail(db, "NotificationNotFound")
    ELSE LET notif == db.notifications[id] IN
         IF ~(notif.to = to) THEN Fail(db, "NotRecipient")
         ELSE IF id \notin DOMAIN db.messages[notif.from] THEN Fail(db, "MessageNotFound")
         ELSE Ok([db EXCEPT
                    !.notifications = Erase(db.notifications, id),
                    !.messages[notif.from] = Erase(db.messages[notif.from], id)])

\* messenger::erasemsg
erasemsg(db, actor, from, id) ==
    IF actor # from THEN Fail(db, "AuthorizationDenied")
    ELSE IF id \notin DOMAIN db.notifications THEN Fail(db, "NotificationNotFound")
    ELSE LET notif == db.notifications[id] IN
         IF ~(notif.from = from) THEN Fail(db, "NotSender")
         ELSE IF id \notin DOMAIN db.messages[from] THEN Fail(db, "MessageNotFound")
         ELSE Ok([db EXCEPT
                    !.notifications = Erase(db.notifications, id),
                    !.messages[from] = Erase(db.messages[from], id)])

\* one messenger transaction
CommitMsg(r) ==
    /\ notifications' = Host(MsgDB, r).notifications
    /\ messages' = Host(MsgDB, r).messages
    /\ UNCHANGED <<vars, atmvars, pollvars>>

SendMsg ==
    \E actor \in Senders, from \in Senders, to \in Recipients, msg \in Texts,
       now \in Times :
        /\ available_primary_key(notifications) <= MaxMsgId
        /\ CommitMsg(sendmsg(MsgDB, actor, from, to, msg, now))

ReceiveMsg ==
    \E actor \in Senders, to \in Senders, id \in MsgIds :
        CommitMsg(receivemsg(MsgDB, actor, to, id))

EraseMsg ==
    \E actor \in Senders, from \in Senders, id \in MsgIds :
        CommitMsg(erasemsg(MsgDB, actor, from, id))

NextMsg ==
    \/ SendMsg
    \/ ReceiveMsg
    \/ EraseMsg

SpecMsg == Init /\ [][NextMsg]_msgvars

(* ------------------------------- C30 ----------------------------------- *)

\* C30: a notification of id i and sender f exists exactly when f's message
\* table holds a message of id i; a receivemsg commits only for the
\* recipient of the notification and an erasemsg only for its sender, each
\* leaving neither the notification nor the message; a sendmsg never meets
\* an existing notification or message key, and an authorized sendmsg of a
\* non-empty text commits.
C30_MessengerPairing ==
    /\ \A i \in MsgIds, f \in ChainAccounts :
          (i \in DOMAIN notifications /\ notifications[i].from = f)
             <=> i \in DOMAIN messages[f]
    /\ \A actor \in Senders, to \in Senders, id \in MsgIds :
          LET r == receivemsg(MsgDB, actor, to, id) IN
          r.err = "ok"
             => /\ actor = to
                /\ id \in DOMAIN notifications
                /\ notifications[id].to = to
                /\ id \notin DOMAIN r.db.notifications
                /\ id \notin DOMAIN r.db.messages[notifications[id].from]
    /\ \A actor \in Senders, from \in Senders, id \in MsgIds :
          LET r == erasemsg(MsgDB, actor, from, id) IN
          r.err = "ok"
             => /\ actor = from
                /\ id \in DOMAIN notifications
                /\ notifications[id].from = from
                /\ id \notin DOMAIN r.db.notifications
                /\ id \notin DOMAIN r.db.messages[from]
    /\ \A actor \in Senders, from \in Senders, to \in Recipients, msg \in Texts,
          now \in Times :
          LET r == sendmsg(MsgDB, actor, from, to, msg, now) IN
          /\ r.err # "DuplicateKey"
          /\ (actor = from /\ msg # "") => r.err = "ok"

\* messages of both senders are stored with a gap in the ids (id 1 was handed
\* out and its message is gone), and id 1 is handed out again once the
\* message of id 2 is erased
C30_Witness ==
    /\ DOMAIN notifications = {0, 2}
    /\ notifications[0].from = "alice"
    /\ notifications[2].from = "bob"
    /\ LET e == erasemsg(MsgDB, "bob", "bob", 2)
           s == sendmsg(e.db, "alice", "alice", "bob", "hi", 2)
       IN /\ e.err = "ok"
          /\ s.err = "ok"
          /\ 1 \in DOMAIN s.db.messages["alice"]

====
